---- MODULE Spec2Model ----
(***************************************************************************)
(* git-puller: walk a directory tree, start one pullRepository goroutine   *)
(* per directory that holds a ".git" directory, wait for all of them and   *)
(* print the summary table (src/git-puller.go).                            *)
(*                                                                         *)
(* A path is a sequence of names (<<"r", "a", ".git">> is r/a/.git); a     *)
(* string read from a subprocess is a sequence of one-character strings.   *)
(***************************************************************************)
EXTENDS Naturals, Integers, Sequences, FiniteSets, TLC

VARIABLES
    fs,         \* the directory tree under the root argument (never written)
    broken,     \* the entries of fs that cannot be accessed (never written)
    main_pc,    \* position of the main goroutine: main / NewGitPullCommand / run
    exitCode,   \* process exit status, -1 while the process is running
    todo,       \* filepath.Walk: the entries still to be walked, in walk order
    visited,    \* the paths visit has been called with, in call order
    walkErr,    \* the error filepath.Walk returns to run
    tasks,      \* the goroutines started by visit, in start order
    wg,         \* g.wg: the WaitGroup counter
    mu,         \* g.mu: 0 when unlocked, else the index of the holding task
    summary,    \* g.summary: rows <<dir, remote, status>>
    rendered,   \* the tables printSummary has rendered, in order
    probeIn,    \* prober harness: [out, cmdErr], the subprocess result fed in
    probeOut,   \* prober harness: what getGitStatus returned for probeIn
    updIn,      \* aggregator harness: [rows, dir, status], the call of updateStatus
    updOut      \* aggregator harness: [done, rows], the rows after the call

vars == <<fs, broken, main_pc, exitCode, todo, visited, walkErr, tasks, wg, mu,
          summary, rendered, probeIn, probeOut,
                   updIn, updOut>>

(***************************************************************************)
(* Bounds of the model.                                                    *)
(***************************************************************************)
\* deepest entry below the root argument
MaxDepth == 2
\* most entries below the root argument
MaxEntries == 4
\* most entries that cannot be accessed
MaxErrs == 1
\* longest subprocess output fed to the prober harness
MaxOutLen == 6
\* most rows of a collection fed to the aggregator harness
MaxRows == 3

(***************************************************************************)
(* Strings: strings.Split, strings.TrimSpace, strings.Fields.              *)
(***************************************************************************)
NL == "\n"

\* unicode.IsSpace, on the characters of Alphabet
IsSpace(c) == c \in {" ", "\t", "\n"}

Alphabet == {"o", "u", " ", "\t", "\n"}

\* index of the first occurrence of sep in s, 0 when there is none
IndexOf(s, sep) ==
    IF \E i \in 1..Len(s) : s[i] = sep
    THEN CHOOSE i \in 1..Len(s) : s[i] = sep /\ \A j \in 1..(i-1) : s[j] # sep
    ELSE 0

RECURSIVE Split(_, _)
\* strings.Split(s, sep) for a one-character sep: never empty, Split("") = [""]
Split(s, sep) ==
    LET i == IndexOf(s, sep)
    IN  IF i = 0 THEN <<s>>
        ELSE <<SubSeq(s, 1, i-1)>> \o Split(SubSeq(s, i+1, Len(s)), sep)

RECURSIVE TrimLeft(_)
TrimLeft(s) ==
    IF s # <<>> /\ IsSpace(Head(s)) THEN TrimLeft(Tail(s)) ELSE s

RECURSIVE TrimRight(_)
TrimRight(s) ==
    IF s # <<>> /\ IsSpace(s[Len(s)]) THEN TrimRight(SubSeq(s, 1, Len(s)-1)) ELSE s

\* strings.TrimSpace
TrimSpace(s) == TrimRight(TrimLeft(s))

RECURSIVE FieldsFrom(_, _)
\* strings.Fields, scanning s with cur the field being read
FieldsFrom(s, cur) ==
    IF s = <<>> THEN (IF cur = <<>> THEN <<>> ELSE <<cur>>)
    ELSE IF IsSpace(Head(s))
         THEN (IF cur = <<>> THEN <<>> ELSE <<cur>>) \o FieldsFrom(Tail(s), <<>>)
         ELSE FieldsFrom(Tail(s), Append(cur, Head(s)))

\* strings.Fields
Fields(s) == FieldsFrom(s, <<>>)

\* getGitStatus with remoteParts[0] returned for remoteParts[1]
getGitStatus_first(output, cmdErr) ==
    IF cmdErr THEN [remote |-> <<>>, status |-> "Unknown"]
    ELSE LET lines == Split(output, NL)
         IN  IF Len(lines) < 1 THEN [remote |-> <<>>, status |-> "Unknown"]
             ELSE LET remoteLine == TrimSpace(lines[1])
                      remoteParts == Fields(remoteLine)
                  IN  IF Len(remoteParts) # 3
                      THEN [remote |-> <<>>, status |-> "Unknown"]
                      ELSE [remote |-> remoteParts[1], status |-> "Pending"]

\* getGitStatus: output and cmdErr are what `git -C dir remote -v` gave
getGitStatus(output, cmdErr) ==
    IF cmdErr THEN [remote |-> <<>>, status |-> "Unknown"]
    ELSE LET lines == Split(output, NL)
         IN  IF Len(lines) < 1 THEN [remote |-> <<>>, status |-> "Unknown"]
             ELSE LET remoteLine == TrimSpace(lines[1])
                      remoteParts == Fields(remoteLine)
                  IN  IF Len(remoteParts) # 3
                      THEN [remote |-> <<>>, status |-> "Unknown"]
                      ELSE [remote |-> remoteParts[2], status |-> "Pending"]

(***************************************************************************)
(* The directory tree.  fs is a set of entries [path, isDir]; broken is    *)
(* the set of paths that cannot be accessed: os.Lstat or the listing of    *)
(* the directory fails there, and filepath.Walk hands the error to visit.  *)
(***************************************************************************)
\* the directory given on the command line, args[0]
Root == <<"r">>

\* the entry names of the model, in the order readDirNames sorts them
NameOrder == <<".git", "a", "b">>

Names == {NameOrder[i] : i \in 1..Len(NameOrder)}

\* filepath.Dir
Dir(path) == SubSeq(path, 1, Len(path) - 1)

\* os.FileInfo.Name
Name(path) == path[Len(path)]

\* filepath.Join(path, name)
Join(path, name) == Append(path, name)

Paths(T) == {e.path : e \in T}

\* ".git" is a directory or a file (a worktree's or submodule's link file);
\* the other names are directories
Kinds(n) == IF n = ".git" THEN BOOLEAN ELSE {TRUE}

\* the entries that can be added to tree T: a new name in a directory of T
\* (names are used in order: "b" only beside "a")
NewEntries(T) ==
    {x \in [path : {Join(e.path, n) : e \in {y \in T : y.isDir /\ Len(y.path) <= MaxDepth},
                                      n \in Names},
            isDir : BOOLEAN] :
        /\ x.path \notin Paths(T)
        /\ x.isDir \in Kinds(Name(x.path))
        /\ Name(x.path) = "b" => Join(Dir(x.path), "a") \in Paths(T)}

Grow(S) == S \cup UNION {{T \cup {x} : x \in NewEntries(T)} : T \in S}

RECURSIVE TreesFrom(_, _)
\* the trees reached from those of S by adding at most k entries
TreesFrom(S, k) == IF k = 0 THEN S ELSE TreesFrom(Grow(S), k - 1)

\* the trees of at most MaxEntries entries below Root, none deeper than MaxDepth
Trees == TreesFrom({{[path |-> Root, isDir |-> TRUE]}}, MaxEntries)

\* the sets of at most MaxErrs inaccessible entries of tree T
BrokenSets(T) == {B \in SUBSET Paths(T) : Cardinality(B) <= MaxErrs}

Entry(path) == CHOOSE e \in fs : e.path = path

\* readDirNames(path) joined to path: the entries of a directory, sorted
Children(path) ==
    LET names == SelectSeq(NameOrder, LAMBDA n : Join(path, n) \in Paths(fs))
    IN  [i \in 1..Len(names) |-> Join(path, names[i])]

(***************************************************************************)
(* The Result Aggregator: g.summary under g.mu.                            *)
(***************************************************************************)
\* the index of the first row of rows whose path is dir, 0 when there is none
FirstRow(rows, dir) ==
    IF \E i \in 1..Len(rows) : rows[i][1] = dir
    THEN CHOOSE i \in 1..Len(rows) :
            rows[i][1] = dir /\ \A j \in 1..(i-1) : rows[j][1] # dir
    ELSE 0

\* updateStatus writing every row, not only the first one that matches dir
updateStatus_all(rows, dir, status) ==
    [i \in 1..Len(rows) |-> [rows[i] EXCEPT ![3] = status]]

\* updateStatus never finding its row
updateStatus_none(rows, dir, status) == rows

\* updateStatus: the rows after g.updateStatus(dir, status)
updateStatus(rows, dir, status) ==
    LET i == FirstRow(rows, dir)
    IN  IF i = 0 THEN rows ELSE [rows EXCEPT ![i][3] = status]

\* an append that overwrites the last row: the lost update of an unguarded append
appendRow_lost(rows, dir, remote, status) ==
    IF rows = <<>> THEN <<(<<dir, remote, status>>)>>
    ELSE [rows EXCEPT ![Len(rows)] = <<dir, remote, status>>]

\* an append that puts the new row in front of the rows already there
appendRow_front(rows, dir, remote, status) == <<(<<dir, remote, status>>)>> \o rows

\* an append that drops the remote the probe returned
appendRow_blank(rows, dir, remote, status) == Append(rows, <<dir, <<>>, status>>)

\* g.summary = append(g.summary, []string{dir, remote, status})
appendRow(rows, dir, remote, status) == Append(rows, <<dir, remote, status>>)

\* pullRepository recording another word for a pull that succeeded
pullStatus_done(err) == IF err THEN "Failed" ELSE "Done"

\* the status pullRepository records for the error cmd.Run() returned
pullStatus(err) == IF err THEN "Failed" ELSE "Success"

(***************************************************************************)
(* The Tree Walker: visit, the callback of filepath.Walk.                  *)
(***************************************************************************)
\* visit returning nil for a .git directory, so that the walk goes into it
visit_noSkip(path, isDir, err) ==
    IF err THEN [ret |-> "nil", spawn |-> <<>>]
    ELSE IF isDir /\ Name(path) = ".git"
         THEN [ret |-> "nil", spawn |-> <<Dir(path)>>]
         ELSE [ret |-> "nil", spawn |-> <<>>]

\* visit handing the access error back to filepath.Walk, which then stops
visit_abort(path, isDir, err) ==
    IF err THEN [ret |-> "err", spawn |-> <<>>]
    ELSE IF isDir /\ Name(path) = ".git"
         THEN [ret |-> "SkipDir", spawn |-> <<Dir(path)>>]
         ELSE [ret |-> "nil", spawn |-> <<>>]

\* visit(path, info, err): what it returns to filepath.Walk, and the
\* repository it starts a goroutine for (<<>> when it starts none).
\* isDir is info.IsDir(); info is nil when lstat failed, and then err is set.
visit(path, isDir, err) ==
    IF err THEN [ret |-> "nil", spawn |-> <<>>]
    ELSE IF isDir /\ Name(path) = ".git"
         THEN [ret |-> "SkipDir", spawn |-> <<Dir(path)>>]
         ELSE [ret |-> "nil", spawn |-> <<>>]

\* a goroutine `go g.pullRepository(dir)` that has not run yet
NewTask(dir) ==
    [dir |-> dir, pc |-> "probe", remote |-> <<>>, status |-> "", err |-> FALSE,
     probes |-> 0, pulls |-> 0]

\* the remote-listing outputs the subprocess gives in the walk model
ProbeOutputs ==
    { <<>>,
      <<"o", "\t", "u", " ", "o">>,
      <<"o", " ", "u">>,
      <<"o", "\t", "u", " ", "o", "\n", "u", "\t", "o", " ", "u">> }

(***************************************************************************)
(* The main goroutine: main, NewGitPullCommand, setupLogger, run.          *)
(***************************************************************************)
Init ==
    /\ fs \in Trees
    /\ broken \in BrokenSets(fs)
    /\ main_pc = "new"
    /\ exitCode = -1
    /\ todo = <<>>
    /\ visited = <<>>
    /\ walkErr = "nil"
    /\ tasks = <<>>
    /\ wg = 0
    /\ mu = 0
    /\ summary = <<>>
    /\ rendered = <<>>
    /\ probeIn = [out |-> <<>>, cmdErr |-> FALSE]
    /\ probeOut = [remote |-> <<>>, status |-> ""]
    /\ updIn = [rows |-> <<>>, dir |-> Root, status |-> "Success"]
    /\ updOut = [done |-> FALSE, rows |-> <<>>]

\* NewGitPullCommand / setupLogger: an invalid --log-level exits with 1
NewGitPullCommand ==
    /\ main_pc = "new"
    /\ \E levelOk \in BOOLEAN :
        IF levelOk
        THEN main_pc' = "execute" /\ exitCode' = exitCode
        ELSE main_pc' = "exited" /\ exitCode' = 1
    /\ UNCHANGED <<fs, broken, todo, visited, walkErr, tasks, wg, mu, summary, rendered,
                   probeIn, probeOut,
                   updIn, updOut>>

\* main: rootCmd.Execute() with cobra.ExactArgs(1); run starts the walk
Execute ==
    /\ main_pc = "execute"
    /\ \E nargs \in 0..2 :
        IF nargs = 1
        THEN main_pc' = "walk" /\ todo' = <<Root>> /\ exitCode' = exitCode
        ELSE main_pc' = "exited" /\ todo' = todo /\ exitCode' = 1
    /\ UNCHANGED <<fs, broken, visited, walkErr, tasks, wg, mu, summary, rendered,
                   probeIn, probeOut,
                   updIn, updOut>>

\* what is left to walk after the entry at the head of todo, given what
\* visit returned for it (filepath.Walk / walk)
Remaining(path, isDir, descend, ret) ==
    IF ret = "nil"
    THEN (IF descend THEN Children(path) ELSE <<>>) \o Tail(todo)
    ELSE IF ret = "SkipDir"
         THEN (IF isDir THEN Tail(todo)
               ELSE SelectSeq(Tail(todo), LAMBDA q : Dir(q) # Dir(path)))
         ELSE <<>>

\* one step of filepath.Walk(dir, g.visit): lstat the next entry, list it
\* when it is a directory, call visit, and descend unless told otherwise
WalkStep ==
    /\ main_pc = "walk"
    /\ todo # <<>>
    /\ LET path == Head(todo)
           e == Entry(path)
           err == path \in broken
           v == visit(path, e.isDir, err)
           isDir == e.isDir
           descend == e.isDir /\ ~err
       IN  /\ visited' = Append(visited, path)
           /\ todo' = Remaining(path, isDir, descend, v.ret)
           /\ walkErr' = IF v.ret \in {"nil", "SkipDir"} THEN walkErr ELSE v.ret
           /\ IF v.spawn # <<>>
              THEN /\ wg' = wg + 1
                   /\ tasks' = Append(tasks, NewTask(v.spawn[1]))
              ELSE UNCHANGED <<wg, tasks>>
    /\ UNCHANGED <<fs, broken, main_pc, exitCode, mu, summary, rendered, probeIn, probeOut,
                   updIn, updOut>>

\* filepath.Walk returns; run logs its error and goes on to g.wait()
WalkReturn ==
    /\ main_pc = "walk"
    /\ todo = <<>>
    /\ main_pc' = "wait"
    /\ UNCHANGED <<fs, broken, exitCode, todo, visited, walkErr, tasks, wg, mu, summary,
                   rendered, probeIn, probeOut,
                   updIn, updOut>>

\* a wait that does not block
waitReturns_always(counter) == TRUE

\* g.wg.Wait() returns when the counter is zero
waitReturns(counter) == counter = 0

\* wait
Wait ==
    /\ main_pc = "wait"
    /\ waitReturns(wg)
    /\ main_pc' = "print"
    /\ UNCHANGED <<fs, broken, exitCode, todo, visited, walkErr, tasks, wg, mu, summary,
                   rendered, probeIn, probeOut,
                   updIn, updOut>>

\* printSummary: one table of the rows of g.summary
printSummary ==
    /\ main_pc = "print"
    /\ rendered' = Append(rendered, summary)
    /\ main_pc' = "return"
    /\ UNCHANGED <<fs, broken, exitCode, todo, visited, walkErr, tasks, wg, mu, summary,
                   probeIn, probeOut,
                   updIn, updOut>>

\* main exiting with 1 when some repository's pull failed
Exit_failOnError ==
    /\ main_pc = "return"
    /\ main_pc' = "exited"
    /\ exitCode' = IF \E i \in 1..Len(tasks) : tasks[i].err THEN 1 ELSE 0
    /\ UNCHANGED <<fs, broken, todo, visited, walkErr, tasks, wg, mu, summary, rendered,
                   probeIn, probeOut,
                   updIn, updOut>>

\* run returns, Execute returns nil, main returns: exit status 0
Exit ==
    /\ main_pc = "return"
    /\ main_pc' = "exited"
    /\ exitCode' = 0
    /\ UNCHANGED <<fs, broken, todo, visited, walkErr, tasks, wg, mu, summary, rendered,
                   probeIn, probeOut,
                   updIn, updOut>>

(***************************************************************************)
(* pullRepository, one goroutine per task i.  The process ends when main   *)
(* returns, so no goroutine runs once main_pc is "exited".                 *)
(***************************************************************************)
Running(i) == i \in 1..Len(tasks) /\ main_pc # "exited"

\* remote, status := g.getGitStatus(dir)
Probe(i) ==
    /\ Running(i)
    /\ tasks[i].pc = "probe"
    /\ \E out \in ProbeOutputs, cmdErr \in BOOLEAN :
        LET r == getGitStatus(out, cmdErr)
        IN  tasks' = [tasks EXCEPT ![i].remote = r.remote, ![i].status = r.status,
                                   ![i].probes = @ + 1, ![i].pc = "lock1"]
    /\ UNCHANGED <<fs, broken, main_pc, exitCode, todo, visited, walkErr, wg, mu, summary,
                   rendered, probeIn, probeOut,
                   updIn, updOut>>

\* a Lock that does not wait for the holder to unlock
Lock_noWait(i) ==
    /\ Running(i)
    /\ tasks[i].pc \in {"lock1", "lock2"}
    /\ mu' = i
    /\ tasks' = [tasks EXCEPT ![i].pc = IF @ = "lock1" THEN "append" ELSE "update"]
    /\ UNCHANGED <<fs, broken, main_pc, exitCode, todo, visited, walkErr, wg, summary,
                   rendered, probeIn, probeOut,
                   updIn, updOut>>

\* g.mu.Lock(), before the append and before the update
Lock(i) ==
    /\ Running(i)
    /\ tasks[i].pc \in {"lock1", "lock2"}
    /\ mu = 0
    /\ mu' = i
    /\ tasks' = [tasks EXCEPT ![i].pc = IF @ = "lock1" THEN "append" ELSE "update"]
    /\ UNCHANGED <<fs, broken, main_pc, exitCode, todo, visited, walkErr, wg, summary,
                   rendered, probeIn, probeOut,
                   updIn, updOut>>

\* pullRepository appending no record when the probe gave "Unknown"
AppendRecord_skipUnknown(i) ==
    /\ Running(i)
    /\ tasks[i].pc = "append"
    /\ summary' = IF tasks[i].status = "Unknown" THEN summary
                  ELSE appendRow(summary, tasks[i].dir, tasks[i].remote, tasks[i].status)
    /\ mu' = 0
    /\ tasks' = [tasks EXCEPT ![i].pc = "pull"]
    /\ UNCHANGED <<fs, broken, main_pc, exitCode, todo, visited, walkErr, wg, rendered,
                   probeIn, probeOut,
                   updIn, updOut>>

\* g.summary = append(...); g.mu.Unlock()
AppendRecord(i) ==
    /\ Running(i)
    /\ tasks[i].pc = "append"
    /\ summary' = appendRow(summary, tasks[i].dir, tasks[i].remote, tasks[i].status)
    /\ mu' = 0
    /\ tasks' = [tasks EXCEPT ![i].pc = "pull"]
    /\ UNCHANGED <<fs, broken, main_pc, exitCode, todo, visited, walkErr, wg, rendered,
                   probeIn, probeOut,
                   updIn, updOut>>

\* pullRepository running the pull again after a pull that failed
Pull_retry(i) ==
    /\ Running(i)
    /\ tasks[i].pc = "pull"
    /\ \E err \in BOOLEAN :
        tasks' = [tasks EXCEPT ![i].err = err, ![i].pulls = @ + 1,
                               ![i].pc = IF err /\ tasks[i].pulls = 0
                                         THEN "pull" ELSE "lock2"]
    /\ UNCHANGED <<fs, broken, main_pc, exitCode, todo, visited, walkErr, wg, mu, summary,
                   rendered, probeIn, probeOut,
                   updIn, updOut>>

\* err := exec.Command("git", "-C", dir, "pull").Run()
Pull(i) ==
    /\ Running(i)
    /\ tasks[i].pc = "pull"
    /\ \E err \in BOOLEAN :
        tasks' = [tasks EXCEPT ![i].err = err, ![i].pulls = @ + 1, ![i].pc = "lock2"]
    /\ UNCHANGED <<fs, broken, main_pc, exitCode, todo, visited, walkErr, wg, mu, summary,
                   rendered, probeIn, probeOut,
                   updIn, updOut>>

\* pullRepository returning from the failure branch with the mutex held
UpdateRecord_keepLock(i) ==
    /\ Running(i)
    /\ tasks[i].pc = "update"
    /\ summary' = updateStatus(summary, tasks[i].dir, pullStatus(tasks[i].err))
    /\ mu' = IF tasks[i].err THEN mu ELSE 0
    /\ tasks' = [tasks EXCEPT ![i].pc = "return"]
    /\ UNCHANGED <<fs, broken, main_pc, exitCode, todo, visited, walkErr, wg, rendered,
                   probeIn, probeOut, updIn, updOut>>

\* g.updateStatus(dir, "Failed" or "Success"); g.mu.Unlock()
UpdateRecord(i) ==
    /\ Running(i)
    /\ tasks[i].pc = "update"
    /\ summary' = updateStatus(summary, tasks[i].dir, pullStatus(tasks[i].err))
    /\ mu' = 0
    /\ tasks' = [tasks EXCEPT ![i].pc = "return"]
    /\ UNCHANGED <<fs, broken, main_pc, exitCode, todo, visited, walkErr, wg, rendered,
                   probeIn, probeOut,
                   updIn, updOut>>

\* pullRepository returning without g.wg.Done()
Done_noDecrement(i) ==
    /\ Running(i)
    /\ tasks[i].pc = "return"
    /\ wg' = wg
    /\ tasks' = [tasks EXCEPT ![i].pc = "done"]
    /\ UNCHANGED <<fs, broken, main_pc, exitCode, todo, visited, walkErr, mu, summary,
                   rendered, probeIn, probeOut, updIn, updOut>>

\* the deferred g.wg.Done() as pullRepository returns
Done(i) ==
    /\ Running(i)
    /\ tasks[i].pc = "return"
    /\ wg' = wg - 1
    /\ tasks' = [tasks EXCEPT ![i].pc = "done"]
    /\ UNCHANGED <<fs, broken, main_pc, exitCode, todo, visited, walkErr, mu, summary,
                   rendered, probeIn, probeOut,
                   updIn, updOut>>

Next ==
    \/ NewGitPullCommand
    \/ Execute
    \/ WalkStep
    \/ WalkReturn
    \/ Wait
    \/ printSummary
    \/ Exit
    \/ \E i \in 1..Len(tasks) : Probe(i)
    \/ \E i \in 1..Len(tasks) : Lock(i)
    \/ \E i \in 1..Len(tasks) : AppendRecord(i)
    \/ \E i \in 1..Len(tasks) : Pull(i)
    \/ \E i \in 1..Len(tasks) : UpdateRecord(i)
    \/ \E i \in 1..Len(tasks) : Done(i)

Spec == Init /\ [][Next]_vars

(***************************************************************************)
(* Scheduling.  The Go scheduler lets every goroutine that can run take    *)
(* its next step, and the probe and pull subprocesses are taken to return: *)
(* weak fairness of the main goroutine and of every pullRepository         *)
(* goroutine (there are at most MaxEntries of them).                       *)
(***************************************************************************)
\* a step of the main goroutine
mainStep ==
    \/ NewGitPullCommand
    \/ Execute
    \/ WalkStep
    \/ WalkReturn
    \/ Wait
    \/ printSummary
    \/ Exit

\* a step of the goroutine of task i
pullRepository(i) ==
    \/ Probe(i)
    \/ Lock(i)
    \/ AppendRecord(i)
    \/ Pull(i)
    \/ UpdateRecord(i)
    \/ Done(i)

SpecFair ==
    /\ Spec
    /\ WF_vars(mainStep)
    /\ \A i \in 1..MaxEntries : WF_vars(pullRepository(i))

(***************************************************************************)
(* The Status Prober on its own: getGitStatus applied to every subprocess  *)
(* result of at most MaxOutLen characters.                                 *)
(***************************************************************************)
StringsUpTo(n) == UNION {[1..k -> Alphabet] : k \in 0..n}

InitProbe ==
    /\ fs = {[path |-> Root, isDir |-> TRUE]}
    /\ broken = {}
    /\ main_pc = "new"
    /\ exitCode = -1
    /\ todo = <<>>
    /\ visited = <<>>
    /\ walkErr = "nil"
    /\ tasks = <<>>
    /\ wg = 0
    /\ mu = 0
    /\ summary = <<>>
    /\ rendered = <<>>
    /\ probeIn \in [out : StringsUpTo(MaxOutLen), cmdErr : BOOLEAN]
    /\ probeOut = [remote |-> <<>>, status |-> ""]
    /\ updIn = [rows |-> <<>>, dir |-> Root, status |-> "Success"]
    /\ updOut = [done |-> FALSE, rows |-> <<>>]

ProbeApply ==
    /\ probeOut.status = ""
    /\ probeOut' = getGitStatus(probeIn.out, probeIn.cmdErr)
    /\ UNCHANGED <<fs, broken, main_pc, exitCode, todo, visited, walkErr, tasks, wg,
                   mu, summary, rendered, probeIn, updIn, updOut>>

NextProbe == ProbeApply

SpecProbe == InitProbe /\ [][NextProbe]_vars

(***************************************************************************)
(* The Result Aggregator on its own: updateStatus applied to every         *)
(* collection of at most MaxRows rows, with paths that repeat and paths    *)
(* that are missing.                                                       *)
(***************************************************************************)
\* the rows of the harness: two paths, two remotes, three statuses
HarnessRows ==
    {<<d, r, st>> : d \in {Root, Join(Root, "a")},
                    r \in {<<>>, <<"u">>},
                    st \in {"Pending", "Unknown", "Success"}}

RowSeqsUpTo(n) == UNION {[1..k -> HarnessRows] : k \in 0..n}

InitUpdate ==
    /\ fs = {[path |-> Root, isDir |-> TRUE]}
    /\ broken = {}
    /\ main_pc = "new"
    /\ exitCode = -1
    /\ todo = <<>>
    /\ visited = <<>>
    /\ walkErr = "nil"
    /\ tasks = <<>>
    /\ wg = 0
    /\ mu = 0
    /\ summary = <<>>
    /\ rendered = <<>>
    /\ probeIn = [out |-> <<>>, cmdErr |-> FALSE]
    /\ probeOut = [remote |-> <<>>, status |-> ""]
    /\ updIn \in [rows : RowSeqsUpTo(MaxRows),
                  dir : {Root, Join(Root, "a"), Join(Root, "b")},
                  status : {"Success", "Failed"}]
    /\ updOut = [done |-> FALSE, rows |-> <<>>]

UpdateApply ==
    /\ ~updOut.done
    /\ updOut' = [done |-> TRUE, rows |-> updateStatus(updIn.rows, updIn.dir, updIn.status)]
    /\ UNCHANGED <<fs, broken, main_pc, exitCode, todo, visited, walkErr, tasks, wg,
                   mu, summary, rendered, probeIn, probeOut, updIn>>

NextUpdate == UpdateApply

SpecUpdate == InitUpdate /\ [][NextUpdate]_vars

(***************************************************************************)
(* Properties.                                                             *)
(***************************************************************************)
TaskIds == 1..Len(tasks)

\* run has reached printSummary, or is past it
Printing == main_pc \in {"print", "return"} \/ (main_pc = "exited" /\ exitCode = 0)

\* the rows of table `rows` whose path is dir
RowsOf(rows, dir) == {k \in 1..Len(rows) : rows[k][1] = dir}

FinalStatus == {"Success", "Failed"}

\* C1: the table is rendered only after the traversal has finished and every
\* task started by visit has returned from pullRepository, and it is
\* rendered exactly once per run.
C1_TableAfterJoin ==
    /\ (Printing \/ rendered # <<>>) =>
          /\ todo = <<>>
          /\ \A i \in TaskIds : tasks[i].pc = "done"
    /\ Len(rendered) = (IF main_pc = "return" \/ (main_pc = "exited" /\ exitCode = 0)
                        THEN 1 ELSE 0)

C1_Witness ==
    /\ rendered # <<>>
    /\ Len(tasks) = 2
    /\ \A i \in TaskIds : tasks[i].pc = "done"

\* C2: when the run is over the collection holds exactly one record per
\* repository root the walker found, with pairwise distinct paths, and the
\* roots themselves are pairwise distinct.
C2_OneRecordPerRoot ==
    /\ \A i, j \in TaskIds : i # j => tasks[i].dir # tasks[j].dir
    /\ \A k, l \in 1..Len(summary) : k # l => summary[k][1] # summary[l][1]
    /\ Printing =>
          /\ Len(summary) = Len(tasks)
          /\ \A i \in TaskIds : Cardinality(RowsOf(summary, tasks[i].dir)) = 1

C2_Witness ==
    /\ Printing
    /\ Len(tasks) = 2
    /\ Len(summary) = 2
    /\ summary[1][1] = tasks[2].dir

\* C3: in the rendered table every repository's status is Failed exactly when
\* its own pull returned an error and Success exactly when its own pull
\* succeeded, whatever the other repositories' pulls did.
C3_FailureIsolation ==
    \A t \in 1..Len(rendered) : \A i \in TaskIds :
        /\ RowsOf(rendered[t], tasks[i].dir) # {}
        /\ \A k \in RowsOf(rendered[t], tasks[i].dir) :
              /\ (rendered[t][k][3] = "Failed") <=> tasks[i].err
              /\ (rendered[t][k][3] = "Success") <=> ~tasks[i].err

C3_Witness ==
    /\ Len(rendered) = 1
    /\ \E i, j \in TaskIds : tasks[i].err /\ ~tasks[j].err
    /\ \E k, l \in 1..Len(rendered[1]) :
          rendered[1][k][3] = "Failed" /\ rendered[1][l][3] = "Success"

\* path p lies strictly below directory d
Below(p, d) == Len(p) > Len(d) /\ SubSeq(p, 1, Len(d)) = d

\* C4: once the walker has identified R as a repository root it does not
\* descend further into R: nothing below R other than R's own .git entry is
\* visited afterwards, and no directory strictly below R gets a task.
C4_Pruning ==
    /\ \A i, j \in TaskIds : ~Below(tasks[j].dir, tasks[i].dir)
    /\ \A i \in TaskIds : \A m, k \in 1..Len(visited) :
          (visited[m] = Join(tasks[i].dir, ".git") /\ m < k) =>
              ~Below(visited[k], tasks[i].dir)

\* C5: when the table is rendered every row carries a final status, Success
\* or Failed, and every repository the walker found has a row.
C5_FinalStatusAtRender ==
    /\ \A t \in 1..Len(rendered) :
          /\ \A k \in 1..Len(rendered[t]) : rendered[t][k][3] \in FinalStatus
          /\ \A i \in TaskIds : RowsOf(rendered[t], tasks[i].dir) # {}
    /\ main_pc = "print" =>
          /\ \A k \in 1..Len(summary) : summary[k][3] \in FinalStatus
          /\ \A i \in TaskIds : RowsOf(summary, tasks[i].dir) # {}

C5_Witness ==
    /\ Len(rendered) = 1
    /\ Len(rendered[1]) = 2
    /\ \E i \in TaskIds : tasks[i].status = "Unknown"
    /\ \E i \in TaskIds : tasks[i].status = "Pending"

\* the characters of s before its first newline
FirstLine(s) ==
    LET n == IF \E i \in 1..Len(s) : s[i] = NL
             THEN (CHOOSE i \in 1..Len(s) : s[i] = NL /\ \A j \in 1..(i-1) : s[j] # NL) - 1
             ELSE Len(s)
    IN  [i \in 1..n |-> s[i]]

\* the positions of s where a whitespace-separated field starts
FieldStarts(s) ==
    {i \in 1..Len(s) : ~IsSpace(s[i]) /\ (i = 1 \/ IsSpace(s[i-1]))}

\* the field of s that starts at position i
FieldAt(s, i) ==
    LET last == CHOOSE j \in i..Len(s) :
                    /\ \A m \in i..j : ~IsSpace(s[m])
                    /\ (j = Len(s) \/ IsSpace(s[j+1]))
    IN  SubSeq(s, i, last)

\* the second whitespace-separated field of s
SecondField(s) ==
    LET i == CHOOSE j \in FieldStarts(s) :
                 Cardinality({m \in FieldStarts(s) : m < j}) = 1
    IN  FieldAt(s, i)

C7_Original ==
    \A k \in 1..Len(summary) : summary[k][3] \in {"Pending", "Success", "Failed"}

\* C7, amended: the status of every record is one of Pending, Unknown,
\* Success, Failed (Unknown is the initial status after a failed probe).
C7_StatusValues ==
    \A k \in 1..Len(summary) :
        summary[k][3] \in {"Pending", "Unknown", "Success", "Failed"}

C7_Witness ==
    /\ \E k \in 1..Len(summary) : summary[k][3] = "Unknown"
    /\ \E k \in 1..Len(summary) : summary[k][3] = "Success"

\* the step writes the status of row k
Writes(k) == k <= Len(summary') /\ summary'[k][3] # summary[k][3]

\* C8: a record's status is written only by its own task, after that task's
\* pull has completed, and from the initial status to Success or Failed;
\* while the pull has not finished the record holds the initial status, and
\* a record that holds Success or Failed is never changed again.
C8_WrittenOnceAfterPull ==
    /\ [](\A i \in TaskIds :
            tasks[i].pc \in {"pull", "lock2", "update"} =>
                \A k \in RowsOf(summary, tasks[i].dir) :
                    summary[k][3] = tasks[i].status /\ summary[k][3] \notin FinalStatus)
    /\ [][\A k \in 1..Len(summary) :
            /\ Len(summary') >= Len(summary)
            /\ summary[k][3] \in FinalStatus => summary'[k] = summary[k]
            /\ Writes(k) =>
                  /\ summary'[k][3] \in FinalStatus
                  /\ \E i \in TaskIds :
                        /\ tasks[i].dir = summary[k][1]
                        /\ tasks[i].pc = "update"
                        /\ tasks[i].pulls = 1
                        /\ tasks'[i].pc = "return"]_vars

C8_Witness ==
    \E i, j \in TaskIds :
        /\ tasks[i].pc = "pull"
        /\ tasks[j].pc = "done"
        /\ \E k \in RowsOf(summary, tasks[i].dir) : summary[k][3] = "Pending"
        /\ \E k \in RowsOf(summary, tasks[j].dir) : summary[k][3] \in FinalStatus

\* task i has appended its record
Appended(i) == tasks[i].pc \in {"pull", "lock2", "update", "return", "done"}

\* C9: a task whose probe returned ("", "Unknown") still appends its record,
\* still runs the pull once, and its record ends as Success or Failed
\* according to the pull's outcome.
C9_UnknownProbeStillPulls ==
    \A i \in TaskIds :
        tasks[i].status = "Unknown" =>
            /\ tasks[i].remote = <<>>
            /\ Appended(i) => \E k \in RowsOf(summary, tasks[i].dir) :
                                  summary[k][2] = <<>>
            /\ tasks[i].pc \in {"lock2", "update", "return", "done"} => tasks[i].pulls = 1
            /\ tasks[i].pc \in {"return", "done"} =>
                  \E k \in RowsOf(summary, tasks[i].dir) :
                      summary[k][3] = (IF tasks[i].err THEN "Failed" ELSE "Success")

C9_Witness ==
    /\ Len(rendered) = 1
    /\ \E i \in TaskIds :
          /\ tasks[i].status = "Unknown"
          /\ ~tasks[i].err
          /\ \E k \in RowsOf(rendered[1], tasks[i].dir) : rendered[1][k][3] = "Success"

RECURSIVE Accessible(_)
\* the walk can reach path p: every directory above it can be listed and is
\* not a metadata directory
Accessible(p) ==
    \/ p = Root
    \/ LET d == Dir(p)
       IN  /\ Accessible(d)
           /\ d \notin broken
           /\ \E e \in fs : e.path = d /\ e.isDir
           /\ ~(Name(d) = ".git")

\* the traversal is over
Walked == main_pc \in {"wait", "print", "return"} \/ (main_pc = "exited" /\ exitCode = 0)

Visited == {visited[k] : k \in 1..Len(visited)}

\* C10: an inaccessible entry never aborts the scan: it gets no task, and
\* when the traversal is over every entry of the accessible remainder of the
\* tree has been visited and every accessible metadata directory has a task.
C10_ErrorsDoNotAbort ==
    /\ walkErr = "nil"
    /\ \A p \in broken : Name(p) = ".git" => \A i \in TaskIds : tasks[i].dir # Dir(p)
    /\ Walked =>
          \A e \in fs :
              Accessible(e.path) =>
                  /\ e.path \in Visited
                  /\ (e.isDir /\ Name(e.path) = ".git" /\ e.path \notin broken) =>
                        \E i \in TaskIds : tasks[i].dir = Dir(e.path)

C10_Witness ==
    /\ Walked
    /\ \E k \in 1..Len(visited) :
          /\ visited[k] \in broken
          /\ \E m \in (k+1)..Len(visited) : \E i \in TaskIds :
                visited[m] = Join(tasks[i].dir, ".git")

\* argument and flag parsing succeeded: run was entered
Parsed == main_pc \in {"walk", "wait", "print", "return"} \/ visited # <<>>

\* C11: once argument and flag parsing has succeeded the process exits with
\* status 0, whatever the probes and pulls returned and whatever entries
\* could not be accessed; exit status 1 is given only before the walk starts.
C11_ExitZero ==
    /\ (Parsed /\ main_pc = "exited") => exitCode = 0
    /\ Parsed => exitCode \in {-1, 0}
    /\ exitCode = 1 => (visited = <<>> /\ tasks = <<>> /\ rendered = <<>>)

C11_Witness ==
    /\ main_pc = "exited"
    /\ exitCode = 0
    /\ Len(tasks) = 2
    /\ \A i \in TaskIds : tasks[i].err /\ tasks[i].status = "Unknown"
    /\ \E p \in broken : p \in Visited

\* the tasks started for repository root dir
TasksFor(dir) == {i \in TaskIds : tasks[i].dir = dir}

\* C12: no retry: every repository root the walker found has exactly one
\* task, and every task starts exactly one pull subprocess, whether that
\* pull succeeds or fails.
C12_NoRetry ==
    /\ \A k \in 1..Len(visited) :
          LET p == visited[k]
          IN  (p \notin broken /\ Entry(p).isDir /\ Name(p) = ".git") =>
                  Cardinality(TasksFor(Dir(p))) = 1
    /\ \A i \in TaskIds :
          /\ Cardinality(TasksFor(tasks[i].dir)) = 1
          /\ tasks[i].pulls =
                (IF tasks[i].pc \in {"lock2", "update", "return", "done"} THEN 1 ELSE 0)

C12_Witness ==
    /\ Printing
    /\ \E i, j \in TaskIds :
          /\ tasks[i].err /\ tasks[i].pulls = 1
          /\ ~tasks[j].err /\ tasks[j].pulls = 1

\* C13 as stated: the rows of the table are in the order in which the walker
\* found the repository roots.
C13_Original ==
    \A t \in 1..Len(rendered) : \A k \in 1..Len(rendered[t]) :
        k <= Len(tasks) /\ rendered[t][k][1] = tasks[k].dir

\* C13, amended: the rows are kept in the order in which the tasks appended
\* them (the order in which they took the lock): an append puts the row of
\* the appending task after the rows already there, no step moves or removes
\* a row, and the rendered rows are the repository roots found, each once, in
\* an order that need not be the discovery order.
C13_AppendOrder ==
    /\ [][/\ Len(summary') >= Len(summary)
          /\ Len(summary') <= Len(summary) + 1
          /\ \A k \in 1..Len(summary) : summary'[k][1] = summary[k][1]
          /\ Len(summary') = Len(summary) + 1 =>
                \E i \in TaskIds :
                    /\ tasks[i].pc = "append" /\ tasks'[i].pc = "pull"
                    /\ summary'[Len(summary')][1] = tasks[i].dir]_vars
    /\ [](\A t \in 1..Len(rendered) :
            /\ Len(rendered[t]) = Len(tasks)
            /\ \A i \in TaskIds : Cardinality(RowsOf(rendered[t], tasks[i].dir)) = 1)

C13_Witness ==
    /\ Len(rendered) = 1
    /\ Len(tasks) = 2
    /\ rendered[1][1][1] = tasks[2].dir
    /\ rendered[1][2][1] = tasks[1].dir

\* the tasks that are between g.mu.Lock() and g.mu.Unlock()
Holders == {i \in TaskIds : tasks[i].pc \in {"append", "update"}}

\* C14: every append and every status update is made by the task that holds
\* the mutex, no two tasks are between Lock and Unlock at once, and the
\* mutex is not held while a probe or pull subprocess runs.
C14_MutualExclusion ==
    /\ [](/\ Cardinality(Holders) <= 1
          /\ \A i \in TaskIds : (i \in Holders) <=> (mu = i)
          /\ mu # 0 => mu \in TaskIds /\ tasks[mu].pc \notin {"probe", "pull"})
    /\ [][summary' # summary =>
             /\ mu \in Holders
             /\ mu' = 0
             /\ tasks'[mu].pc \in {"pull", "return"}
             /\ \A j \in TaskIds \ {mu} : tasks'[j] = tasks[j]]_vars

C14_Witness ==
    \E i, j \in TaskIds :
        /\ mu = i
        /\ tasks[i].pc = "update"
        /\ tasks[j].pc = "lock1"
        /\ i # j

\* C15: within a task the steps come in the order probe, append (the row
\* holds the probe's remote and initial status), pull, update: the record is
\* in the collection before the pull starts and holds the pull's outcome
\* only after it.
C15_StepOrder ==
    \A i \in TaskIds :
        LET t == tasks[i]
            rows == RowsOf(summary, t.dir)
        IN  /\ t.pc = "probe" => (t.probes = 0 /\ t.pulls = 0 /\ rows = {})
            /\ t.pc \in {"lock1", "append"} => (t.probes = 1 /\ t.pulls = 0 /\ rows = {})
            /\ t.pc = "pull" =>
                  /\ t.probes = 1 /\ t.pulls = 0
                  /\ \E k \in rows : summary[k] = <<t.dir, t.remote, t.status>>
            /\ t.pc \in {"lock2", "update"} =>
                  /\ t.probes = 1 /\ t.pulls = 1
                  /\ \E k \in rows : summary[k] = <<t.dir, t.remote, t.status>>
            /\ t.pc \in {"return", "done"} =>
                  /\ t.probes = 1 /\ t.pulls = 1
                  /\ \E k \in rows :
                        /\ summary[k][2] = t.remote
                        /\ summary[k][3] = (IF t.err THEN "Failed" ELSE "Success")

C15_Witness ==
    \E i \in TaskIds :
        /\ tasks[i].pc = "pull"
        /\ tasks[i].remote = <<"u">>
        /\ \E k \in RowsOf(summary, tasks[i].dir) :
              summary[k] = <<tasks[i].dir, <<"u">>, "Pending">>

\* C16: whenever a task calls updateStatus a record with its path is in the
\* collection, and the first record with that path is the one the task
\* appended: updateStatus always finds its row.
C16_UpdateFindsOwnRow ==
    \A i \in TaskIds :
        tasks[i].pc = "update" =>
            /\ FirstRow(summary, tasks[i].dir) # 0
            /\ \A k \in RowsOf(summary, tasks[i].dir) :
                  /\ summary[k] = <<tasks[i].dir, tasks[i].remote, tasks[i].status>>
                  /\ \A l \in RowsOf(summary, tasks[i].dir) : l = k

C16_Witness ==
    \E i \in TaskIds :
        /\ tasks[i].pc = "update"
        /\ RowsOf(summary, tasks[i].dir) = {2}
        /\ summary[1][3] \in FinalStatus

\* C17: updateStatus(path, status) changes only the status of the first
\* record whose path is `path`: the number and order of the records, every
\* path and remote and every other status stay as they were, and when no
\* record has that path the collection is unchanged.
C17_UpdateFrame ==
    updOut.done =>
        LET old == updIn.rows
            new == updOut.rows
            hits == {k \in 1..Len(old) : old[k][1] = updIn.dir}
        IN  /\ Len(new) = Len(old)
            /\ \A k \in 1..Len(old) :
                  /\ new[k][1] = old[k][1]
                  /\ new[k][2] = old[k][2]
                  /\ new[k][3] = (IF k \in hits /\ \A l \in hits : k <= l
                                  THEN updIn.status ELSE old[k][3])
            /\ hits = {} => new = old

C17_Witness ==
    /\ updOut.done
    /\ Len(updIn.rows) = 3
    /\ updIn.rows[1][1] # updIn.dir
    /\ updIn.rows[2][1] = updIn.dir
    /\ updIn.rows[3][1] = updIn.dir
    /\ updIn.rows[2][3] = "Pending"
    /\ updIn.rows[3][3] = "Pending"
    /\ updOut.rows[2][3] = "Failed"
    /\ updOut.rows[3][3] = "Pending"

\* C18: when every probe and pull returns and scheduling is fair, every run
\* ends: once the walk has started every task finishes and the table is
\* rendered, the process exits, and no state short of the exit is stuck.
C18_Termination ==
    /\ <>(main_pc = "exited")
    /\ (main_pc = "walk") ~> (/\ Len(rendered) = 1
                              /\ wg = 0
                              /\ \A i \in 1..Len(tasks) : tasks[i].pc = "done")
    /\ [](main_pc = "exited" \/ ENABLED Next)

C18_Witness ==
    /\ main_pc = "exited"
    /\ Len(rendered) = 1
    /\ Len(rendered[1]) = 2
    /\ \E i, j \in TaskIds : tasks[i].err /\ ~tasks[j].err /\ i < j

\* the tasks that have been started and have not returned
Unfinished == {i \in TaskIds : tasks[i].pc # "done"}

\* C19: the WaitGroup counter is the number of started tasks that have not
\* returned, so it is never negative; it is incremented only by the walker,
\* in the step that starts the goroutine and before the main goroutine
\* waits, and decremented once by each task as it returns; the wait returns
\* only when no task is unstarted or running.
C19_WaitGroup ==
    /\ [](/\ wg = Cardinality(Unfinished)
          /\ wg >= 0
          /\ main_pc \in {"print", "return"} => Unfinished = {})
    /\ [][/\ wg' > wg =>
                /\ main_pc = "walk" /\ main_pc' = "walk"
                /\ wg' = wg + 1
                /\ Len(tasks') = Len(tasks) + 1
                /\ tasks'[Len(tasks')].pc = "probe"
          /\ wg' < wg =>
                /\ wg' = wg - 1
                /\ \E i \in TaskIds :
                      tasks[i].pc = "return" /\ tasks'[i].pc = "done"
          /\ (main_pc = "wait" /\ main_pc' # "wait") =>
                (wg = 0 /\ \A i \in TaskIds : tasks[i].pc = "done")]_vars

C19_Witness ==
    /\ main_pc = "wait"
    /\ wg = 1
    /\ Len(tasks) = 2
    /\ tasks[1].pc = "probe"
    /\ tasks[2].pc = "done"

\* path p lies inside a directory named .git
InsideGit(p) == \E n \in 1..(Len(p) - 1) : p[n] = ".git"

\* C20: every directory named .git that visit is called with, without an
\* error, gets exactly one task, for its parent, and its contents are
\* skipped: no path inside a .git directory is visited or becomes a
\* repository root; an entry named .git that is not a directory gets no task.
C20_MetadataDirectory ==
    /\ \A k \in 1..Len(visited) :
          LET p == visited[k]
              isRepo == p \notin broken /\ Entry(p).isDir /\ Name(p) = ".git"
          IN  /\ ~InsideGit(p)
              /\ \A m \in 1..Len(visited) : visited[m] = p => m = k
              /\ Name(p) = ".git" =>
                    Cardinality({i \in TaskIds : tasks[i].dir = Dir(p)}) =
                        (IF isRepo THEN 1 ELSE 0)
    /\ \A i \in TaskIds :
          /\ \A n \in 1..Len(tasks[i].dir) : tasks[i].dir[n] # ".git"
          /\ Join(tasks[i].dir, ".git") \in Visited
    /\ Len(tasks) = Cardinality({p \in Visited :
                        p \notin broken /\ Entry(p).isDir /\ Name(p) = ".git"})

C20_Witness ==
    /\ Walked
    /\ \E e \in fs : InsideGit(e.path) /\ Name(e.path) = ".git" /\ e.isDir
    /\ \E e \in fs : Name(e.path) = ".git" /\ ~e.isDir /\ e.path \in Visited
    /\ Len(tasks) = 1

====
